---- MODULE Spec2Model ----
(***************************************************************************)
(* Model of the pw password store (src/src/lib.rs).                        *)
(*                                                                         *)
(* The store is one file at a caller supplied path.  Every operation of    *)
(* lib.rs checks the existence of the file, runs the external scrypt       *)
(* binary to decrypt it, decodes the JSON plaintext, works on the vector   *)
(* of entries and (for a mutation) encodes and encrypts the vector back.   *)
(*                                                                         *)
(* The plaintext is modelled as a sequence of JSON tokens, the file as     *)
(* either missing, a blob scrypt cannot decrypt, or the scrypt encryption  *)
(* of a plaintext.  What the scrypt subprocess does in one invocation is   *)
(* an input of the operation.                                              *)
(***************************************************************************)
EXTENDS Integers, Sequences, FiniteSets, TLC

VARIABLES file, op, result, calls, fromInit, last, order,
          gen, codec, procs, raced

storeVars == <<file, op, result, calls, fromInit, last, order>>
vars == <<file, op, result, calls, fromInit, last, order, gen, codec, procs, raced>>

----------------------------------------------------------------------------
(* Bounds and value sets *)

MaxSeedLen == 2

Names == {"mail", "bank"}

PwPath == "pw.scrypt"

----------------------------------------------------------------------------
(* PasswordEntry *)

PasswordEntry(n, u, p) == [name |-> n, username |-> u, password |-> p]

\* the credentials an invocation passes: none recorded, or a username
Credentials == {<<"", "p1">>, <<"a@b.com", "p2">>}

Entries == {PasswordEntry(n, c[1], c[2]) : n \in Names, c \in Credentials}

NoEntry == PasswordEntry("", "", "")

NameArg(n) == PasswordEntry(n, "", "")

----------------------------------------------------------------------------
(* The JSON plaintext: a sequence of tokens *)

Tok(t) == [t |-> t, v |-> ""]
Str(s) == [t |-> "str", v |-> s]
BadByte == Tok("0xFF")

\* the strings JSON writes with an escape: the string, and its text between
\* the quotes (a backslash is written as two)
Escapes == {<<"x\\y", "x\\\\y">>}

\* serde_json's format_escaped_str
escape(s) ==
  IF \E p \in Escapes : p[1] = s THEN (CHOOSE p \in Escapes : p[1] = s)[2] ELSE s

\* a parser that takes the text between the quotes as the string
unescape_none(v) == v

\* serde_json's parse_str
unescape(v) ==
  IF \E p \in Escapes : p[2] = v THEN (CHOOSE p \in Escapes : p[2] = v)[1] ELSE v

Fields == <<"name", "username", "password">>
FieldSet == {Fields[i] : i \in 1..Len(Fields)}

\* serde_json::to_writer of one PasswordEntry: the fields in declaration order
RECURSIVE ser_fields(_, _)
ser_fields(e, i) ==
  IF i > Len(Fields) THEN <<>>
  ELSE <<Str(escape(Fields[i])), Tok(":"), Str(escape(e[Fields[i]]))>>
       \o (IF i < Len(Fields) THEN <<Tok(",")>> ELSE <<>>)
       \o ser_fields(e, i + 1)

ser_entry(e) == <<Tok("{")>> \o ser_fields(e, 1) \o <<Tok("}")>>

RECURSIVE ser_elems(_)
ser_elems(data) ==
  IF data = <<>> THEN <<>>
  ELSE ser_entry(Head(data))
       \o (IF Len(data) > 1 THEN <<Tok(",")>> ELSE <<>>)
       \o ser_elems(Tail(data))

\* serde_json::to_writer(stdin, data)
to_writer(data) == <<Tok("[")>> \o ser_elems(data) \o <<Tok("]")>>

ParseFail == [ok |-> FALSE, next |-> 0, data |-> <<>>]

NoFields == [k \in FieldSet |-> <<>>]

\* the members of one JSON object, from the token at i (a key) on
RECURSIVE de_members(_, _, _)
de_members(b, i, acc) ==
  IF i + 3 > Len(b) THEN ParseFail
  ELSE IF b[i].t # "str" \/ b[i + 1].t # ":" \/ b[i + 2].t # "str" THEN ParseFail
  ELSE LET k == unescape(b[i].v)
           known == k \in FieldSet
           acc2 == IF known THEN [acc EXCEPT ![k] = <<unescape(b[i + 2].v)>>] ELSE acc
       IN IF known /\ acc[k] # <<>> THEN ParseFail  \* duplicate field
          ELSE IF b[i + 3].t = "," THEN de_members(b, i + 4, acc2)
          ELSE IF b[i + 3].t = "}"
               THEN IF \E f \in FieldSet : acc2[f] = <<>> THEN ParseFail  \* missing field
                    ELSE [ok |-> TRUE, next |-> i + 4,
                          data |-> <<PasswordEntry(acc2["name"][1], acc2["username"][1],
                                                   acc2["password"][1])>>]
          ELSE ParseFail

de_entry(b, i) ==
  IF i + 1 > Len(b) \/ b[i].t # "{" THEN ParseFail
  ELSE IF b[i + 1].t = "}" THEN ParseFail  \* missing field
  ELSE de_members(b, i + 1, NoFields)

\* the elements of the JSON array, from the token at i (an object) on
RECURSIVE de_elems(_, _, _)
de_elems(b, i, acc) ==
  LET e == de_entry(b, i) IN
  IF ~e.ok THEN ParseFail
  ELSE IF e.next > Len(b) THEN ParseFail
  ELSE IF b[e.next].t = "," THEN de_elems(b, e.next + 1, acc \o e.data)
  ELSE IF b[e.next].t = "]"
       THEN IF e.next = Len(b) THEN [ok |-> TRUE, next |-> e.next + 1, data |-> acc \o e.data]
            ELSE ParseFail  \* trailing characters
  ELSE ParseFail

\* serde_json::from_slice::<Vec<PasswordEntry>>(&output.stdout)
from_slice(b) ==
  IF Len(b) < 2 \/ b[1].t # "[" THEN ParseFail
  ELSE IF b[2].t = "]" THEN (IF Len(b) = 2 THEN [ok |-> TRUE, next |-> 3, data |-> <<>>]
                             ELSE ParseFail)
  ELSE de_elems(b, 2, <<>>)

\* String::from_utf8(output.stdout).unwrap_or(String::from(""))
from_utf8_or_empty(b) ==
  IF \E i \in 1..Len(b) : b[i] = BadByte THEN <<>> ELSE b

----------------------------------------------------------------------------
(* The file at the path *)

NoFile == [exists |-> FALSE, ok |-> FALSE, plain |-> <<>>]
Corrupt == [exists |-> TRUE, ok |-> FALSE, plain |-> <<>>]
Encrypted(b) == [exists |-> TRUE, ok |-> TRUE, plain |-> b]

\* file.exists()
exists(f) == f.exists

----------------------------------------------------------------------------
(* Results of an operation: Ok or a PwError, or the panic of an expect() *)

Res(k, d, raw, p) == [kind |-> k, data |-> d, raw |-> raw, path |-> p]
Ok(d) == Res("Ok", d, <<>>, "")
Err(k) == Res(k, <<>>, <<>>, "")
FileNotFound(p) == Res("FileNotFound", <<>>, <<>>, p)
FileAlreadyExists(p) == Res("FileAlreadyExists", <<>>, <<>>, p)
InvalidJson(raw) == Res("InvalidJson", <<>>, raw, "")
Panic == Err("Panic")

\* what one run of the scrypt binary does
DecOutcomes == {"ok", "fail", "absent"}
EncOutcomes == {"ok", "fail", "epipe", "absent"}
Modes == {"dec", "enc"}

Call(m, o) == [mode |-> m, out |-> o]

\* outcome of an operation: its result, its scrypt runs, the file afterwards
Outcome(r, c, f) == [res |-> r, calls |-> c, file |-> f]

----------------------------------------------------------------------------
(* The cipher gateway: read and write *)

\* fn read(file): scrypt dec file, stdout piped, then from_slice.
\* One outcome per thing the scrypt run can do.
read(f) ==
  {Outcome(Panic, <<Call("dec", "absent")>>, f)}  \* expect("failed to start scrypt")
  \cup {Outcome(Err("ScryptError"), <<Call("dec", "fail")>>, f)}
  \cup (IF ~f.exists \/ ~f.ok THEN {}
        ELSE LET d == from_slice(f.plain) IN
             IF d.ok THEN {Outcome(Ok(d.data), <<Call("dec", "ok")>>, f)}
             ELSE {Outcome(InvalidJson(from_utf8_or_empty(f.plain)),
                           <<Call("dec", "ok")>>, f)})

\* what a scrypt enc run that did not succeed leaves at the path
AfterFailedEnc(f) == {f, Corrupt}

\* fn write(file, data): scrypt enc - file, stdin piped, then to_writer and wait
write(f, data) ==
  {Outcome(Panic, <<Call("enc", "absent")>>, f)}  \* expect("failed to start scrypt")
  \cup {Outcome(InvalidJson(<<>>), <<Call("enc", "epipe")>>, g) : g \in AfterFailedEnc(f)}
  \cup {Outcome(Err("ScryptError"), <<Call("enc", "fail")>>, g) : g \in AfterFailedEnc(f)}
  \cup {Outcome(Ok(<<>>), <<Call("enc", "ok")>>, Encrypted(to_writer(data)))}

----------------------------------------------------------------------------
(* Helpers on the vector of entries *)

\* any_named looking at the first entry only
any_named_first(data, name) == Len(data) >= 1 /\ data[1].name = name

\* data.iter().any(|e| e.name == name)
any_named(data, name) == \E i \in 1..Len(data) : data[i].name = name

\* position of the entry that find(|e| e.name == name) returns, 0 for None
find(data, name) ==
  IF any_named(data, name)
  THEN CHOOSE i \in 1..Len(data) :
         /\ data[i].name = name
         /\ \A j \in 1..(i - 1) : data[j].name # name
  ELSE 0

\* push that inserts at the front
push_front(data, e) == <<e>> \o data

\* push that leaves only the new entry in the vector
push_only(data, e) == <<e>>

\* data.push(new_entry)
push(data, e) == Append(data, e)

\* entry.username = new_entry.username; entry.password = new_entry.password
assign(data, i, e) ==
  [data EXCEPT ![i] = [@ EXCEPT !.username = e.username, !.password = e.password]]

\* retain that drops the first match only
RECURSIVE retain_first(_, _)
retain_first(data, name) ==
  IF data = <<>> THEN <<>>
  ELSE IF Head(data).name = name THEN Tail(data)
  ELSE <<Head(data)>> \o retain_first(Tail(data), name)

\* removal of the first match with Vec::swap_remove
retain_swap(data, name) ==
  LET i == find(data, name)
      n == Len(data)
  IN IF i = 0 THEN data
     ELSE IF i = n THEN SubSeq(data, 1, n - 1)
     ELSE [SubSeq(data, 1, n - 1) EXCEPT ![i] = data[n]]

\* data.retain(|e| e.name != name)
retain(data, name) ==
  LET keep(e) == e.name # name IN SelectSeq(data, keep)

\* then_write that runs write a second time when the first run fails
then_write_retry(f, r, data) ==
  UNION {IF w.res.kind = "Ok" THEN {Outcome(w.res, r.calls \o w.calls, w.file)}
         ELSE {Outcome(v.res, r.calls \o w.calls \o v.calls, v.file) : v \in write(w.file, data)}
         : w \in write(f, data)}

\* write(file, &data) as the last step of a mutation whose read was r
then_write(f, r, data) ==
  {Outcome(w.res, r.calls \o w.calls, w.file) : w \in write(f, data)}

----------------------------------------------------------------------------
(* The store operations: the set of outcomes of one call *)

\* init without the existence check
init_overwrite(f) == write(f, <<>>)

init(f) ==
  IF exists(f) THEN {Outcome(FileAlreadyExists(PwPath), <<>>, f)}
  ELSE write(f, <<>>)

\* get that returns the first entry once the name is found
get_first(f, name) ==
  IF ~exists(f) THEN {Outcome(FileNotFound(PwPath), <<>>, f)}
  ELSE LET rest(r) ==
             IF find(r.res.data, name) = 0 THEN {Outcome(Err("NotFound"), r.calls, f)}
             ELSE {Outcome(Ok(<<r.res.data[1]>>), r.calls, f)}
       IN \* let data = read(file)?; an error of read is returned as it is
          UNION {IF r.res.kind # "Ok" THEN {r} ELSE rest(r) : r \in read(f)}

get(f, name) ==
  IF ~exists(f) THEN {Outcome(FileNotFound(PwPath), <<>>, f)}
  ELSE LET rest(r) ==
             LET i == find(r.res.data, name) IN
             IF i = 0 THEN {Outcome(Err("NotFound"), r.calls, f)}
             ELSE {Outcome(Ok(<<r.res.data[i]>>), r.calls, f)}
       IN \* let data = read(file)?; an error of read is returned as it is
          UNION {IF r.res.kind # "Ok" THEN {r} ELSE rest(r) : r \in read(f)}

\* list without the existence check
list_unchecked(f) == read(f)

list(f) ==
  IF ~exists(f) THEN {Outcome(FileNotFound(PwPath), <<>>, f)}
  ELSE read(f)

\* add without the check for an entry of the same name
add_duplicate(f, new_entry) ==
  IF ~exists(f) THEN {Outcome(FileNotFound(PwPath), <<>>, f)}
  ELSE LET rest(r) == then_write(f, r, push(r.res.data, new_entry))
       IN \* let data = read(file)?; an error of read is returned as it is
          UNION {IF r.res.kind # "Ok" THEN {r} ELSE rest(r) : r \in read(f)}

add(f, new_entry) ==
  IF ~exists(f) THEN {Outcome(FileNotFound(PwPath), <<>>, f)}
  ELSE LET rest(r) ==
             IF any_named(r.res.data, new_entry.name)
             THEN {Outcome(Err("AlreadyExists"), r.calls, f)}
             ELSE then_write(f, r, push(r.res.data, new_entry))
       IN \* let data = read(file)?; an error of read is returned as it is
          UNION {IF r.res.kind # "Ok" THEN {r} ELSE rest(r) : r \in read(f)}

\* update that inserts the entry when no entry has its name
update_upsert(f, new_entry) ==
  IF ~exists(f) THEN {Outcome(FileNotFound(PwPath), <<>>, f)}
  ELSE LET rest(r) ==
             LET i == find(r.res.data, new_entry.name) IN
             IF i = 0 THEN then_write(f, r, push(r.res.data, new_entry))
             ELSE then_write(f, r, assign(r.res.data, i, new_entry))
       IN \* let data = read(file)?; an error of read is returned as it is
          UNION {IF r.res.kind # "Ok" THEN {r} ELSE rest(r) : r \in read(f)}

update(f, new_entry) ==
  IF ~exists(f) THEN {Outcome(FileNotFound(PwPath), <<>>, f)}
  ELSE LET rest(r) ==
             LET i == find(r.res.data, new_entry.name) IN
             IF i = 0 THEN {Outcome(Err("NotFound"), r.calls, f)}
             ELSE then_write(f, r, assign(r.res.data, i, new_entry))
       IN \* let data = read(file)?; an error of read is returned as it is
          UNION {IF r.res.kind # "Ok" THEN {r} ELSE rest(r) : r \in read(f)}

\* remove that writes the vector back before it looks at the length
remove_write_first(f, name) ==
  IF ~exists(f) THEN {Outcome(FileNotFound(PwPath), <<>>, f)}
  ELSE LET rest(r) ==
             LET original_len == Len(r.res.data)
                 data == retain(r.res.data, name)
             IN {IF w.res.kind = "Ok" /\ Len(data) = original_len
                 THEN Outcome(Err("NotFound"), w.calls, w.file)
                 ELSE w : w \in then_write(f, r, data)}
       IN \* let data = read(file)?; an error of read is returned as it is
          UNION {IF r.res.kind # "Ok" THEN {r} ELSE rest(r) : r \in read(f)}

remove(f, name) ==
  IF ~exists(f) THEN {Outcome(FileNotFound(PwPath), <<>>, f)}
  ELSE LET rest(r) ==
             LET original_len == Len(r.res.data)
                 data == retain(r.res.data, name)
             IN IF Len(data) = original_len THEN {Outcome(Err("NotFound"), r.calls, f)}
                ELSE then_write(f, r, data)
       IN \* let data = read(file)?; an error of read is returned as it is
          UNION {IF r.res.kind # "Ok" THEN {r} ELSE rest(r) : r \in read(f)}

----------------------------------------------------------------------------
(* Reading the state *)

\* the snapshot the file holds, when scrypt can decrypt it and it decodes
Readable(f) == f.exists /\ f.ok /\ from_slice(f.plain).ok
Snapshot(f) == from_slice(f.plain).data
StoredLen(f) == IF Readable(f) THEN Len(Snapshot(f)) ELSE 0

NoDuplicates(data) ==
  \A i, j \in 1..Len(data) : data[i].name = data[j].name => i = j

NamesOf(data) == [i \in 1..Len(data) |-> data[i].name]

----------------------------------------------------------------------------
(* History of the successful operations *)

without(names, n) == LET keep(m) == m # n IN SelectSeq(names, keep)

\* per name, the last successful mutation of the name: the operation, the
\* entry it was given, and by how many entries it changed the length
NoMutation == [fn |-> "none", entry |-> NoEntry, count |-> 0]

last_after(l, fn, e, r, before, after) ==
  IF r.kind = "Ok" /\ fn \in {"add", "update", "remove"}
  THEN [l EXCEPT ![e.name] = [fn |-> fn, entry |-> e, count |-> after - before]]
  ELSE l

\* the names added and not since removed, by the time of their last add
order_after(o, fn, e, r) ==
  IF r.kind # "Ok" THEN o
  ELSE IF fn = "add" THEN Append(without(o, e.name), e.name)
  ELSE IF fn = "remove" THEN without(o, e.name)
  ELSE o

----------------------------------------------------------------------------
(* The other parts of the program while the store operations run *)

\* generate_password is not running
GenIdle ==
  [pc |-> "idle", length |-> 0, charset |-> <<>>, chars |-> <<>>, n |-> 0,
   picked |-> <<>>, pw |-> <<>>]

\* nothing is being encoded or decoded
CodecIdle == [pc |-> "idle", entries |-> <<>>, bytes |-> <<>>, decoded |-> ParseFail]

\* no invocation is in the middle of an operation
Procs == {1, 2}
ProcIdle == [pc |-> "idle", todo |-> <<>>, data |-> <<>>, done |-> <<>>]
ProcsIdle == [p \in Procs |-> ProcIdle]

\* no invocation wrote the file while another was between its check or
\* read and its write
NoRace == [init |-> FALSE, add |-> FALSE]

OthersIdle ==
  /\ gen = GenIdle
  /\ codec = CodecIdle
  /\ procs = ProcsIdle
  /\ raced = NoRace

----------------------------------------------------------------------------
(* The state machine: one invocation of the program after the other *)

RECURSIVE SeqsUpTo(_, _)
SeqsUpTo(S, n) ==
  IF n = 0 THEN {<<>>}
  ELSE LET shorter == SeqsUpTo(S, n - 1) IN
       shorter \cup {Append(s, x) : s \in shorter, x \in S}

\* entries of the stores that exist before the first invocation
\* (one of them has a name no invocation of the model passes)
SeedEntries ==
  {PasswordEntry("mail", "", "p1"), PasswordEntry("mail", "a@b.com", "p2"),
   PasswordEntry("shop", "", "p1")}

\* plaintexts that are not the encoding of a vector of entries
MalformedPlain ==
  { <<>>,
    <<Tok("[")>>,
    <<BadByte>>,
    <<Tok("["), Tok("{"), Str("name"), Tok(":"), Str("mail"), Tok("}"), Tok("]")>>,
    <<Tok("["), BadByte, Tok("]")>> }

InitFiles ==
  {NoFile, Corrupt}
  \cup {Encrypted(to_writer(s)) : s \in SeqsUpTo(SeedEntries, MaxSeedLen)}
  \cup {Encrypted(b) : b \in MalformedPlain}

Init ==
  /\ file \in InitFiles
  /\ op = [fn |-> "none", entry |-> NoEntry]
  /\ result = Err("none")
  /\ calls = <<>>
  /\ fromInit = FALSE
  /\ last = [n \in Names |-> NoMutation]
  /\ order = <<>>
  /\ OthersIdle

Commit(fn, e, o) ==
  /\ op' = [fn |-> fn, entry |-> e]
  /\ result' = o.res
  /\ calls' = o.calls
  /\ file' = o.file
  /\ fromInit' = (fromInit \/ (fn = "init" /\ o.res.kind = "Ok"))
  /\ last' = last_after(last, fn, e, o.res, StoredLen(file), StoredLen(o.file))
  /\ order' = order_after(order, fn, e, o.res)
  /\ UNCHANGED <<gen, codec, procs, raced>>

Cmd_Init ==
  \E o \in init(file) : Commit("init", NoEntry, o)

Cmd_Get ==
  \E name \in Names : \E o \in get(file, name) : Commit("get", NameArg(name), o)

Cmd_List ==
  \E o \in list(file) : Commit("list", NoEntry, o)

Cmd_Add ==
  \E e \in Entries : \E o \in add(file, e) : Commit("add", e, o)

Cmd_Update ==
  \E e \in Entries : \E o \in update(file, e) : Commit("update", e, o)

Cmd_Remove ==
  \E name \in Names : \E o \in remove(file, name) : Commit("remove", NameArg(name), o)

Next ==
  \/ Cmd_Init
  \/ Cmd_Get
  \/ Cmd_List
  \/ Cmd_Add
  \/ Cmd_Update
  \/ Cmd_Remove

Spec == Init /\ [][Next]_vars

----------------------------------------------------------------------------
TypeOK ==
  /\ file.exists \in BOOLEAN
  /\ op.fn \in {"none", "init", "get", "list", "add", "update", "remove"}
  /\ result.kind \in {"none", "Ok", "FileNotFound", "FileAlreadyExists", "ScryptError",
                      "InvalidJson", "NotFound", "AlreadyExists", "Panic"}
  /\ Len(calls) <= 2
  /\ \A i \in 1..Len(calls) :
       /\ calls[i].mode \in Modes
       /\ calls[i].out \in (IF calls[i].mode = "dec" THEN DecOutcomes ELSE EncOutcomes)
  /\ fromInit \in BOOLEAN

----------------------------------------------------------------------------
(* Properties of the store operations *)

Mutations == {"add", "update", "remove"}
NeedStore == {"get", "list"} \cup Mutations

\* the operation's read ran scrypt dec and scrypt exited with success
DecryptOk(c) == Len(c) >= 1 /\ c[1] = Call("dec", "ok")
NoEncrypt(c) == \A i \in 1..Len(c) : c[i].mode # "enc"
NoCipher(c) == c = <<>>

Occurrences(data, n) == Cardinality({i \in 1..Len(data) : data[i].name = n})

\* C1: get, list, add, update and remove on a path where no file exists fail
\* with FileNotFound carrying the path, start no scrypt process and create no
\* file.
C1_MissingStore ==
  [][(~exists(file) /\ op'.fn \in NeedStore)
       => /\ result' = FileNotFound(PwPath)
          /\ NoCipher(calls')
          /\ file' = file
          /\ ~exists(file')]_vars

C1_Witness ==
  op.fn = "remove" /\ result.kind = "FileNotFound" /\ ~exists(file) /\ calls = <<>>

\* C2: init on an existing file fails with FileAlreadyExists, runs no scrypt
\* and leaves the file as it is; init on a missing file (its scrypt enc run
\* succeeding) returns Ok and the file then holds the empty vector: a list
\* that follows returns the empty vector, an init that follows fails with
\* FileAlreadyExists.
C2_Init ==
  [][/\ (op'.fn = "init" /\ exists(file))
          => /\ result' = FileAlreadyExists(PwPath)
             /\ NoCipher(calls')
             /\ file' = file
     /\ (op'.fn = "init" /\ ~exists(file) /\ calls' = <<Call("enc", "ok")>>)
          => /\ result'.kind = "Ok"
             /\ Readable(file')
             /\ Snapshot(file') = <<>>
     /\ (op.fn = "init" /\ result.kind = "Ok" /\ op'.fn = "list" /\ DecryptOk(calls'))
          => result' = Ok(<<>>)
     /\ (op.fn = "init" /\ result.kind = "Ok" /\ op'.fn = "init")
          => result'.kind = "FileAlreadyExists"]_vars

C2_Witness ==
  op.fn = "init" /\ result.kind = "Ok" /\ Readable(file) /\ Snapshot(file) = <<>>

C2_WitnessExisting ==
  op.fn = "init" /\ result.kind = "FileAlreadyExists" /\ Readable(file)
  /\ Len(Snapshot(file)) = 2

\* C3: a store created by init never holds two entries with the same name,
\* whatever add, update, remove, get and list invocations followed.
C3_Unique ==
  (fromInit /\ Readable(file)) => NoDuplicates(Snapshot(file))

C3_Witness ==
  fromInit /\ Readable(file) /\ Len(Snapshot(file)) = 2 /\ op.fn = "update"
  /\ result.kind = "Ok"

\* C4: add of a name the stored vector already holds never runs scrypt enc and
\* leaves the file as it is, and fails with AlreadyExists once the vector is
\* decrypted; while the last successful mutation of a name is an add, a list
\* shows exactly one entry of that name.
C4_AddExisting ==
  [][/\ (op'.fn = "add" /\ Readable(file) /\ any_named(Snapshot(file), op'.entry.name))
          => /\ NoEncrypt(calls')
             /\ file' = file
             /\ DecryptOk(calls') => (result'.kind = "AlreadyExists" /\ Len(calls') = 1)
     /\ (op'.fn = "list" /\ result'.kind = "Ok")
          => \A n \in Names : last'[n].fn = "add"
                                => Occurrences(result'.data, n) = 1]_vars

C4_Witness ==
  /\ op.fn = "add" /\ result.kind = "AlreadyExists"
  /\ last[op.entry.name].fn = "add" /\ last[op.entry.name].entry # op.entry
  /\ Readable(file) /\ Occurrences(Snapshot(file), op.entry.name) = 1

\* C5: while the last successful mutation of a name is add(e), every get of
\* the name whose decrypt succeeds returns exactly e.
C5_GetAfterAdd ==
  (op.fn = "get" /\ last[op.entry.name].fn = "add" /\ DecryptOk(calls))
    => result = Ok(<<last[op.entry.name].entry>>)

C5_Witness ==
  /\ op.fn = "get" /\ result.kind = "Ok"
  /\ last[op.entry.name].fn = "add"
  /\ result.data = <<last[op.entry.name].entry>>
  /\ Len(Snapshot(file)) = 2
  /\ \E n \in Names : last[n].fn = "update"

\* C6: while the last successful mutation of a name is a remove, every get of
\* the name whose decrypt succeeds fails with NotFound; a successful remove
\* leaves no entry of the name, however many the vector held; remove of a name
\* the vector does not hold fails with NotFound and keeps the file.
C6_RemoveThenGet ==
  [][/\ (op'.fn = "get" /\ last'[op'.entry.name].fn = "remove" /\ DecryptOk(calls'))
          => result'.kind = "NotFound"
     /\ (op'.fn = "remove" /\ result'.kind = "Ok")
          => /\ Readable(file) /\ any_named(Snapshot(file), op'.entry.name)
             /\ Readable(file') /\ Occurrences(Snapshot(file'), op'.entry.name) = 0
     /\ (op'.fn = "remove" /\ Readable(file) /\ DecryptOk(calls')
           /\ Occurrences(Snapshot(file), op'.entry.name) = 0)
          => (result'.kind = "NotFound" /\ file' = file)]_vars

C6_Witness ==
  /\ op.fn = "get" /\ result.kind = "NotFound"
  /\ last[op.entry.name].fn = "remove"
  /\ last[op.entry.name].count <= -2
  /\ Readable(file) /\ Len(Snapshot(file)) >= 1

\* C7: a successful update keeps the length of the vector and the name at
\* every position, keeps every entry of another name as it is, and gives the
\* new username and password to an entry of the name; an update of a name the
\* vector does not hold fails with NotFound and keeps the file.
C7_UpdateFrame ==
  [][/\ (op'.fn = "update" /\ result'.kind = "Ok")
          => /\ Readable(file) /\ Readable(file')
             /\ LET old == Snapshot(file)
                    new == Snapshot(file')
                IN /\ Len(new) = Len(old)
                   /\ NamesOf(new) = NamesOf(old)
                   /\ \A i \in 1..Len(old) :
                        old[i].name # op'.entry.name => new[i] = old[i]
                   /\ \E i \in 1..Len(new) : new[i] = op'.entry
                   /\ Cardinality({i \in 1..Len(old) : new[i] # old[i]}) <= 1
     /\ (op'.fn = "update" /\ Readable(file) /\ DecryptOk(calls')
           /\ Occurrences(Snapshot(file), op'.entry.name) = 0)
          => (result'.kind = "NotFound" /\ file' = file)]_vars

C7_Witness ==
  /\ op.fn = "update" /\ result.kind = "Ok"
  /\ Readable(file) /\ Len(Snapshot(file)) >= 2
  /\ Snapshot(file)[2] = op.entry
  /\ Snapshot(file)[1].name # op.entry.name
  /\ Snapshot(file)[1].username # op.entry.username

C7_WitnessAbsent ==
  /\ op.fn = "update" /\ result.kind = "NotFound"
  /\ Readable(file) /\ Len(Snapshot(file)) >= 1

\* C8: in a store created by init, a successful list returns the stored
\* vector, and its names are the names added and not since removed, in the
\* order of their most recent successful add.
C8_ListOrder ==
  (fromInit /\ op.fn = "list" /\ result.kind = "Ok")
    => /\ Readable(file)
       /\ NamesOf(result.data) = order
       /\ \A n \in Names :
            Occurrences(result.data, n) = (IF last[n].fn \in {"add", "update"} THEN 1 ELSE 0)

C8_Witness ==
  /\ fromInit /\ op.fn = "list" /\ result.kind = "Ok"
  /\ NamesOf(result.data) = <<"bank", "mail">>
  /\ last["mail"].fn = "update"
  /\ last["bank"].fn = "add"

\* C9: an operation whose scrypt binary cannot be started returns ScryptError.
C9_CipherAbsent ==
  (\E i \in 1..Len(calls) : calls[i].out = "absent") => result.kind = "ScryptError"

\* the new vector a mutation is to persist
RECURSIVE ReplaceFirst(_, _)
ReplaceFirst(old, e) ==
  IF old = <<>> THEN <<>>
  ELSE IF Head(old).name = e.name THEN <<e>> \o Tail(old)
  ELSE <<Head(old)>> \o ReplaceFirst(Tail(old), e)

RECURSIVE DropNamed(_, _)
DropNamed(old, n) ==
  IF old = <<>> THEN <<>>
  ELSE IF Head(old).name = n THEN DropNamed(Tail(old), n)
  ELSE <<Head(old)>> \o DropNamed(Tail(old), n)

NewSnapshot(o, old) ==
  IF o.fn = "add" THEN old \o <<o.entry>>
  ELSE IF o.fn = "update" THEN ReplaceFirst(old, o.entry)
  ELSE DropNamed(old, o.entry.name)

\* the operation failed with an error raised before write() was called
FailedBeforeEncrypt(r, c) ==
  \/ r.kind \in {"FileNotFound", "NotFound", "AlreadyExists"}
  \/ /\ r.kind \in {"ScryptError", "InvalidJson"}
     /\ c # <<>> /\ c[Len(c)].mode = "dec"

\* C10: add, update and remove that fail before write() is called run no
\* scrypt enc and leave the file as it is; one that returns Ok has run scrypt
\* dec then scrypt enc and the file holds exactly the new vector.
C10_AllOrNothing ==
  [][(op'.fn \in Mutations)
       => /\ FailedBeforeEncrypt(result', calls')
               => (NoEncrypt(calls') /\ file' = file)
          /\ result'.kind = "Ok"
               => /\ Readable(file) /\ Readable(file')
                  /\ Snapshot(file') = NewSnapshot(op', Snapshot(file))
                  /\ calls' = <<Call("dec", "ok"), Call("enc", "ok")>>]_vars

C10_Witness ==
  /\ op.fn = "remove" /\ result.kind = "Ok"
  /\ Readable(file) /\ Len(Snapshot(file)) = 1
  /\ last[op.entry.name].count = -2

C10_WitnessFailed ==
  /\ op.fn = "add" /\ result.kind = "InvalidJson"
  /\ calls = <<Call("dec", "ok")>>
  /\ Readable(file) = FALSE /\ exists(file)

----------------------------------------------------------------------------
(* The scrypt runs of one operation *)

ModesOf(c) == [i \in 1..Len(c) |-> c[i].mode]

\* C11 as stated: get and list run scrypt at most once, a decrypt; add, update
\* and remove run exactly one decrypt followed by exactly one encrypt.
C11_ExactlyOnePair ==
  /\ op.fn \in {"get", "list"} => ModesOf(calls) \in {<<>>, <<"dec">>}
  /\ op.fn \in Mutations => ModesOf(calls) = <<"dec", "enc">>

\* C11 amended: get and list run scrypt at most once, a decrypt; add, update
\* and remove run at most one decrypt followed by at most one encrypt, the
\* encrypt only after a decrypt that succeeded, and both exactly once when
\* the operation returns Ok; no run is repeated.
C11_CipherCalls ==
  /\ op.fn \in {"get", "list"} => ModesOf(calls) \in {<<>>, <<"dec">>}
  /\ op.fn \in Mutations
       => /\ ModesOf(calls) \in {<<>>, <<"dec">>, <<"dec", "enc">>}
          /\ Len(calls) = 2 => calls[1] = Call("dec", "ok")
          /\ result.kind = "Ok" => calls = <<Call("dec", "ok"), Call("enc", "ok")>>
  /\ op.fn = "init" => ModesOf(calls) \in {<<>>, <<"enc">>}

C11_Witness ==
  /\ op.fn = "add" /\ result.kind = "ScryptError"
  /\ calls = <<Call("dec", "ok"), Call("enc", "fail")>>
  /\ file = Corrupt

----------------------------------------------------------------------------
(* generate_password *)

MaxLength == 3
MaxCharsetLen == 2

\* a String is its UTF-8 bytes; a char is the bytes that encode it
Lead2 == {"C3"}
Alphabet == {<<"a">>, <<"C3", "A9">>}

\* charset.chars().collect::<Vec<char>>()
RECURSIVE chars(_)
chars(b) ==
  IF b = <<>> THEN <<>>
  ELSE IF Head(b) \in Lead2 THEN <<SubSeq(b, 1, 2)>> \o chars(SubSeq(b, 3, Len(b)))
  ELSE <<SubSeq(b, 1, 1)>> \o chars(Tail(b))

\* .collect::<String>() of an iterator of chars
RECURSIVE collect_string(_)
collect_string(cs) ==
  IF cs = <<>> THEN <<>> ELSE Head(cs) \o collect_string(Tail(cs))

\* the range 0..=length
in_range_inclusive(n, length) == n <= length

\* the range 0..length of the iterator: n is the number of items taken
in_range(n, length) == n < length

Charsets == {collect_string(cs) : cs \in SeqsUpTo(Alphabet, MaxCharsetLen)}

GenInit ==
  /\ \E length \in 0..MaxLength, charset \in Charsets :
       gen = [GenIdle EXCEPT !.pc = "start", !.length = length, !.charset = charset]
  /\ file = NoFile
  /\ op = [fn |-> "none", entry |-> NoEntry]
  /\ result = Err("none")
  /\ calls = <<>>
  /\ fromInit = FALSE
  /\ last = [n \in Names |-> NoMutation]
  /\ order = <<>>
  /\ codec = CodecIdle
  /\ procs = ProcsIdle
  /\ raced = NoRace

\* let charset: Vec<char> = charset.chars().collect()
Gen_Chars ==
  /\ gen.pc = "start"
  /\ gen' = [gen EXCEPT !.pc = "iter", !.chars = chars(gen.charset)]
  /\ UNCHANGED <<storeVars, codec, procs, raced>>

\* one item of (0..length).map(|_| charset[rng.gen_range(0..charset.len())]);
\* gen_range panics on an empty range
Gen_Sample ==
  /\ gen.pc = "iter"
  /\ in_range(gen.n, gen.length)
  /\ IF Len(gen.chars) = 0
     THEN gen' = [gen EXCEPT !.pc = "panic"]
     ELSE \E k \in 0..(Len(gen.chars) - 1) :
            gen' = [gen EXCEPT !.n = @ + 1, !.picked = Append(@, gen.chars[k + 1])]
  /\ UNCHANGED <<storeVars, codec, procs, raced>>

\* the iterator is exhausted: .collect() returns the String
Gen_Collect ==
  /\ gen.pc = "iter"
  /\ ~in_range(gen.n, gen.length)
  /\ gen' = [gen EXCEPT !.pc = "done", !.pw = collect_string(gen.picked)]
  /\ UNCHANGED <<storeVars, codec, procs, raced>>

GenNext ==
  \/ Gen_Chars
  \/ Gen_Sample
  \/ Gen_Collect

SpecGen == GenInit /\ [][GenNext]_vars

\* the number of characters of a String: the bytes that start a character
Continuation == {"A9"}
CharCount(b) == Cardinality({i \in 1..Len(b) : b[i] \notin Continuation})

\* C12: for a non-empty charset generate_password returns, without a panic,
\* a String of exactly length characters (not bytes), each a character of
\* the charset; for length 0 the String is empty.
C12_Generate ==
  (gen.pc # "idle" /\ gen.charset # <<>>)
    => /\ gen.pc # "panic"
       /\ gen.pc = "done"
            => /\ CharCount(gen.pw) = gen.length
               /\ \A i \in 1..Len(chars(gen.pw)) :
                    \E j \in 1..Len(chars(gen.charset)) :
                      chars(gen.pw)[i] = chars(gen.charset)[j]
               /\ gen.length = 0 => gen.pw = <<>>

C12_Witness ==
  /\ gen.pc = "done" /\ gen.length = MaxLength
  /\ CharCount(gen.pw) = MaxLength
  /\ Len(gen.pw) > MaxLength
  /\ Len(chars(gen.charset)) = 2

\* C19: generate_password with an empty charset and length > 0 does not
\* panic; with length 0 it returns the empty String and samples nothing.
C19_EmptyCharset ==
  (gen.pc # "idle" /\ gen.charset = <<>>)
    => /\ gen.pc # "panic"
       /\ (gen.length = 0 /\ gen.pc = "done") => (gen.pw = <<>> /\ gen.n = 0)

----------------------------------------------------------------------------
(* The codec: to_writer then from_slice *)

MaxCodecLen == 2

CodecEntries ==
  {PasswordEntry(n, u, p) : n \in {"mail", "x\\y"}, u \in {"", "name"}, p \in {"p1", "x\\y"}}

CodecInit ==
  /\ \E entries \in SeqsUpTo(CodecEntries, MaxCodecLen) :
       codec = [CodecIdle EXCEPT !.pc = "start", !.entries = entries]
  /\ file = NoFile
  /\ op = [fn |-> "none", entry |-> NoEntry]
  /\ result = Err("none")
  /\ calls = <<>>
  /\ fromInit = FALSE
  /\ last = [n \in Names |-> NoMutation]
  /\ order = <<>>
  /\ gen = GenIdle
  /\ procs = ProcsIdle
  /\ raced = NoRace

\* write: serde_json::to_writer(stdin, data)
Codec_Encode ==
  /\ codec.pc = "start"
  /\ codec' = [codec EXCEPT !.pc = "encoded", !.bytes = to_writer(codec.entries)]
  /\ UNCHANGED <<storeVars, gen, procs, raced>>

\* read: serde_json::from_slice(&output.stdout)
Codec_Decode ==
  /\ codec.pc = "encoded"
  /\ codec' = [codec EXCEPT !.pc = "decoded", !.decoded = from_slice(codec.bytes)]
  /\ UNCHANGED <<storeVars, gen, procs, raced>>

CodecNext ==
  \/ Codec_Encode
  \/ Codec_Decode

SpecCodec == CodecInit /\ [][CodecNext]_vars

\* C13: decoding the encoding of a vector of entries succeeds and gives the
\* same vector, the empty vector and entries with an empty username included.
C13_RoundTrip ==
  codec.pc = "decoded"
    => (codec.decoded.ok /\ codec.decoded.data = codec.entries)

C13_Witness ==
  /\ codec.pc = "decoded"
  /\ Len(codec.entries) = 2
  /\ codec.entries[1].username = ""
  /\ codec.entries[2].password = "x\\y"
  /\ codec.entries[2].username = "name"
  /\ codec.decoded.data = codec.entries

----------------------------------------------------------------------------
(* Classification of the failures of the scrypt runs *)

LastCall(c) == c[Len(c)]

\* C14: an operation whose scrypt enc run exits with a non-zero status, also
\* when scrypt exits before it has read its standard input, fails with
\* ScryptError.
C14_EncryptFailure ==
  (calls # <<>> /\ LastCall(calls).mode = "enc" /\ LastCall(calls).out \in {"fail", "epipe"})
    => result.kind = "ScryptError"

\* C15: on an existing file, a scrypt dec run that exits non-zero gives
\* ScryptError; a decrypted plaintext that does not parse gives InvalidJson
\* carrying exactly that plaintext, whatever its bytes; NotFound and
\* AlreadyExists are returned only after a decrypt and a decode that succeeded.
C15_LoadErrors ==
  (op.fn \in NeedStore /\ calls # <<>>)
    => /\ calls[1] = Call("dec", "fail") => result.kind = "ScryptError"
       /\ (calls = <<Call("dec", "ok")>> /\ ~from_slice(file.plain).ok)
            => result = InvalidJson(file.plain)
       /\ result.kind \in {"NotFound", "AlreadyExists"}
            => (calls = <<Call("dec", "ok")>> /\ Readable(file))

----------------------------------------------------------------------------
(* remove on a vector of distinct names *)

\* C18: a successful remove on a vector whose names are pairwise distinct
\* shortens it by exactly one entry: the entry of that name is cut out and
\* the entries before and after it stay as they are, in the same order.
C18_RemoveFrame ==
  [][(op'.fn = "remove" /\ result'.kind = "Ok" /\ Readable(file)
        /\ NoDuplicates(Snapshot(file)))
       => /\ Readable(file')
          /\ LET old == Snapshot(file)
                 new == Snapshot(file')
             IN /\ Len(new) = Len(old) - 1
                /\ \E i \in 1..Len(old) :
                     /\ old[i].name = op'.entry.name
                     /\ new = SubSeq(old, 1, i - 1) \o SubSeq(old, i + 1, Len(old))]_vars

C18_Witness ==
  /\ op.fn = "remove" /\ result.kind = "Ok"
  /\ last[op.entry.name].count = -1
  /\ Readable(file) /\ NamesOf(Snapshot(file)) = <<"shop", "bank">>

----------------------------------------------------------------------------
(* Two invocations of the program at the same time on the same path.       *)
(* Nothing in lib.rs locks the file: file.exists(), the scrypt dec run and *)
(* the scrypt enc run of an operation are separate steps, and steps of the *)
(* other invocation can fall between them.                                 *)

Command(fn, e) == [fn |-> fn, entry |-> e]

\* what the first invocation runs, and what the second runs
Programs1 ==
  {<<Command("init", NoEntry)>>}
  \cup {<<Command("add", e)>> : e \in {x \in Entries : x.name = "mail"}}

Programs2 ==
  {<<Command("add", e)>> : e \in Entries}
  \cup {<<Command("init", NoEntry), Command("add", e)>> : e \in Entries}

ConcInit ==
  /\ file \in {NoFile, Encrypted(to_writer(<<>>))}
  /\ \E t1 \in Programs1, t2 \in Programs2 :
       procs = [p \in Procs |->
                  [ProcIdle EXCEPT !.pc = "check", !.todo = IF p = 1 THEN t1 ELSE t2]]
  /\ raced = NoRace
  /\ op = [fn |-> "none", entry |-> NoEntry]
  /\ result = Err("none")
  /\ calls = <<>>
  /\ fromInit = FALSE
  /\ last = [n \in Names |-> NoMutation]
  /\ order = <<>>
  /\ gen = GenIdle
  /\ codec = CodecIdle

Current(p) == Head(procs[p].todo)

\* the operation of p returns kind; its next operation, if any, starts
Finished(p, kind) ==
  [procs EXCEPT ![p] =
     [@ EXCEPT !.done = Append(@, [fn |-> Current(p).fn, entry |-> Current(p).entry,
                                   kind |-> kind]),
               !.todo = Tail(@),
               !.data = <<>>,
               !.pc = IF Len(procs[p].todo) = 1 THEN "done" ELSE "check"]]

\* p has a vector in memory and writes it next
ToWrite(p, data) == [procs EXCEPT ![p] = [@ EXCEPT !.pc = "write", !.data = data]]

\* another invocation is between the check of an init (fn = "init"), or the
\* read of an add (fn = "add"), and its write
Pending(p, fn) ==
  \E q \in Procs \ {p} :
    procs[q].pc = "write" /\ Current(q).fn = fn

\* a check that lets init through whether or not the file exists
check_skip_init(fn, f) ==
  IF fn = "init" THEN "pass"
  ELSE IF ~exists(f) THEN "FileNotFound" ELSE "pass"

\* init: if file.exists() { return Err(FileAlreadyExists) }
\* add: if !file.exists() { return Err(FileNotFound) }
check(fn, f) ==
  IF fn = "init"
  THEN IF exists(f) THEN "FileAlreadyExists" ELSE "pass"
  ELSE IF ~exists(f) THEN "FileNotFound" ELSE "pass"

\* the existence check of init and of add; init then writes an empty vector
Conc_Check(p) ==
  /\ procs[p].pc = "check"
  /\ IF check(Current(p).fn, file) # "pass"
     THEN procs' = Finished(p, check(Current(p).fn, file))
     ELSE IF Current(p).fn = "init"
          THEN procs' = ToWrite(p, <<>>)
          ELSE procs' = [procs EXCEPT ![p].pc = "read"]
  /\ UNCHANGED <<storeVars, gen, codec, raced>>

\* add: let mut data = read(file)?; the check of the names; data.push
Conc_Read(p) ==
  /\ procs[p].pc = "read"
  /\ \E r \in read(file) :
       IF r.res.kind # "Ok" THEN procs' = Finished(p, r.res.kind)
       ELSE IF any_named(r.res.data, Current(p).entry.name)
       THEN procs' = Finished(p, "AlreadyExists")
       ELSE procs' = ToWrite(p, push(r.res.data, Current(p).entry))
  /\ UNCHANGED <<op, result, calls, fromInit, last, order, file, gen, codec, raced>>

\* write(file, &data)
Conc_Write(p) ==
  /\ procs[p].pc = "write"
  /\ \E w \in write(file, procs[p].data) :
       /\ file' = w.file
       /\ procs' = Finished(p, w.res.kind)
  /\ raced' = [init |-> raced.init \/ Pending(p, "init"),
               add |-> raced.add \/ Pending(p, "add")]
  /\ UNCHANGED <<op, result, calls, fromInit, last, order, gen, codec>>

ConcNext ==
  \E p \in Procs :
    \/ Conc_Check(p)
    \/ Conc_Read(p)
    \/ Conc_Write(p)

SpecConc == ConcInit /\ [][ConcNext]_vars

AllDone == \A p \in Procs : procs[p].pc = "done"

Ran(p) == [i \in 1..Len(procs[p].done) |-> procs[p].done[i].fn]

\* the entries whose add returned Ok
AddedOk ==
  {procs[p].done[i].entry : <<p, i>> \in
     {<<p, i>> \in Procs \X (1..2) :
        /\ i <= Len(procs[p].done)
        /\ procs[p].done[i].fn = "add"
        /\ procs[p].done[i].kind = "Ok"}}

Stored(e) == Readable(file) /\ \E i \in 1..Len(Snapshot(file)) : Snapshot(file)[i] = e

TwoAdds ==
  /\ AllDone
  /\ Ran(1) = <<"add">> /\ Ran(2) = <<"add">>
  /\ procs[1].done[1].kind = "Ok" /\ procs[2].done[1].kind = "Ok"
  /\ procs[1].done[1].entry.name # procs[2].done[1].entry.name

\* C16: two adds of different names at the same time that both return Ok
\* leave a vector of both entries when neither wrote between the read and
\* the write of the other, and a vector of one of the two entries only (a
\* lost update) when one did; that interleaving exists.
C16_LostUpdate ==
  TwoAdds
    => /\ Readable(file)
       /\ \A i \in 1..Len(Snapshot(file)) : Snapshot(file)[i] \in AddedOk
       /\ Len(Snapshot(file)) = (IF raced.add THEN 1 ELSE 2)

C16_Witness ==
  /\ TwoAdds
  /\ Len(Snapshot(file)) = 1
  /\ Cardinality(AddedOk) = 2
  /\ \E e \in AddedOk : ~Stored(e)

InitAndInitAdd == Ran(1) = <<"init">> /\ Ran(2) = <<"init", "add">>

\* C17 as stated: whatever the interleaving of an init with an init then add,
\* an entry whose add returned Ok is in the store when both have finished.
C17_NeverOverwrites ==
  (AllDone /\ InitAndInitAdd) => \A e \in AddedOk : Stored(e)

\* C17 amended: an init whose check saw no file writes to a path where there
\* still is no file, and the entry of an add that returned Ok is in the store
\* at the end, unless the other invocation wrote between the check and the
\* write of an init.
C17_NoOverwriteUnlessRaced ==
  ~raced.init
    => /\ \A p \in Procs :
            (procs[p].pc = "write" /\ Current(p).fn = "init") => ~exists(file)
       /\ (AllDone /\ InitAndInitAdd) => \A e \in AddedOk : Stored(e)

C17_Witness ==
  /\ AllDone /\ InitAndInitAdd /\ ~raced.init
  /\ procs[1].done[1].kind = "FileAlreadyExists"
  /\ Cardinality(AddedOk) = 1
  /\ \A e \in AddedOk : Stored(e)

====
